---- MODULE Spec2Model ----
(***************************************************************************)
(* Model of the signature tool: signature_tool/generator.py (rendering of  *)
(* the signature block) and signature_tool/processor.py (per-file decision *)
(* and directory walk).                                                    *)
(*                                                                         *)
(* Representation of text.  A line is a TLA+ string.  A Python str is      *)
(* represented by the non-empty sequence of its pieces between "\n"        *)
(* characters, i.e. by the value of str.split('\n'); '\n'.join(pieces) is  *)
(* the str of those pieces.  The empty str is <<"">>, "a\n" is <<"a","">>. *)
(* Concatenation of two strs (StrConcat) glues the last piece of the left  *)
(* operand to the first piece of the right one.                            *)
(***************************************************************************)
EXTENDS Integers, Sequences, FiniteSets, TLC

VARIABLES fs, config, clock, pc, args, walk, files, stats, calls, runs

vars == <<fs, config, clock, pc, args, walk, files, stats, calls, runs>>

(***************************************************************************)
(* Bounds of the model.                                                    *)
(***************************************************************************)
MaxBlank == 2
MaxCalls == 2
MaxRuns == 2

(***************************************************************************)
(* String helpers (Python str methods used by the code).                   *)
(***************************************************************************)
Min(a, b) == IF a < b THEN a ELSE b

Range(f) == {f[x] : x \in DOMAIN f}

Max(S) == CHOOSE m \in S : \A n \in S : n <= m

\* Python `sub in s`
Contains(sub, s) ==
    \E i \in 1..(Len(s) - Len(sub) + 1) : SubSeq(s, i, i + Len(sub) - 1) = sub

\* Python s.startswith(p)
StartsWith(s, p) == Len(s) >= Len(p) /\ SubSeq(s, 1, Len(p)) = p

Whitespace == {" ", "\t"}

\* Python `not line.strip()`
IsBlank(line) == \A i \in 1..Len(line) : SubSeq(line, i, i) \in Whitespace

\* Python a + b on strs
StrConcat(a, b) ==
    SubSeq(a, 1, Len(a) - 1) \o <<a[Len(a)] \o b[1]>> \o SubSeq(b, 2, Len(b))

\* Python '\n'.join(pieces): the join of no pieces is the empty str
Join(pieces) == IF pieces = <<>> THEN <<"">> ELSE pieces

RECURSIVE Repeat(_, _)
\* Python s * n
Repeat(s, n) == IF n = 0 THEN "" ELSE s \o Repeat(s, n - 1)

(***************************************************************************)
(* generator.py                                                            *)
(***************************************************************************)
COMMENT_STYLES ==
    [e \in {".py", ".rb", ".sh", ".bash", ".yaml", ".yml", ".r", ".perl", ".pl"} |-> "hash"] @@
    [e \in {".js", ".ts", ".jsx", ".tsx", ".java", ".cpp", ".c", ".h", ".hpp",
            ".go", ".rs", ".swift", ".kt", ".scala", ".php"} |-> "slash"] @@
    [e \in {".html", ".xml", ".md", ".svg"} |-> "html"] @@
    [e \in {".css", ".scss", ".sass", ".less"} |-> "css"]

width == 80

separator == Repeat("=", width)

Digits == "0123456789"

\* datetime.now().strftime("%Y-%m-%d") for day `d` of November 2025; the
\* clock stays on one day throughout a behaviour
strftime(d) ==
    "2025-11-" \o SubSeq(Digits, (d \div 10) + 1, (d \div 10) + 1)
               \o SubSeq(Digits, (d % 10) + 1, (d % 10) + 1)

\* The attribution lines built by SignatureGenerator.generate
attribution(cfg, date) ==
    <<"Author: " \o cfg["author"]>>
    \o (IF "title" \in DOMAIN cfg THEN <<"Title: " \o cfg["title"]>> ELSE <<>>)
    \o (IF "website" \in DOMAIN cfg THEN <<"Website: " \o cfg["website"]>> ELSE <<>>)
    \o <<"Email: " \o cfg["email"]>>
    \o (IF "upwork" \in DOMAIN cfg THEN <<"Upwork: " \o cfg["upwork"]>> ELSE <<>>)
    \o <<"Created: " \o date>>

_format_hash(lines) ==
    Join(<<"# " \o separator>>
         \o [i \in 1..Len(lines) |-> "# " \o lines[i]]
         \o <<"# " \o separator>>
         \o <<"">>)

_format_slash(lines) ==
    Join(<<"// " \o separator>>
         \o [i \in 1..Len(lines) |-> "// " \o lines[i]]
         \o <<"// " \o separator>>
         \o <<"">>)

_format_html(lines) ==
    Join(<<"<!--">> \o <<separator>> \o lines \o <<separator>> \o <<"-->">> \o <<"">>)

_format_css(lines) ==
    Join(<<"/*">> \o <<separator>> \o lines \o <<separator>> \o <<"*/">> \o <<"">>)

_format_signature(lines, style) ==
    CASE style = "hash" -> _format_hash(lines)
      [] style = "slash" -> _format_slash(lines)
      [] style = "html" -> _format_html(lines)
      [] style = "css" -> _format_css(lines)

is_supported_file(file_extension) == file_extension \in DOMAIN COMMENT_STYLES

\* the ValueError raised by SignatureGenerator.generate
ValueError == <<"ValueError">>

\* SignatureGenerator.generate with the date the clock gives
generate(cfg, file_extension, date) ==
    IF file_extension \notin DOMAIN COMMENT_STYLES
    THEN ValueError
    ELSE _format_signature(attribution(cfg, date), COMMENT_STYLES[file_extension])

generate_signature(cfg, file_extension, date) == generate(cfg, file_extension, date)

(***************************************************************************)
(* The file system.  A path is the sequence of its components; fs maps the *)
(* paths that exist to their entries.  An entry of kind "file" is a        *)
(* regular file, "dir" a directory, "other" a directory entry that is      *)
(* neither (os.walk lists it among the files).  A regular file has read    *)
(* and write permission bits, is valid UTF-8 or not, and has a text.       *)
(***************************************************************************)
Dir == [kind |-> "dir"]

File(text, r, w, u) ==
    [kind |-> "file", content |-> text, readable |-> r, writable |-> w, utf8 |-> u]

Other == [kind |-> "other"]

\* Path.name
name(path) == path[Len(path)]

\* Path.suffix: the part of the name from its last dot, unless that dot is
\* the first or the last character of the name
suffix(path) ==
    LET n == name(path)
        dots == {i \in 1..Len(n) : SubSeq(n, i, i) = "."}
    IN  IF dots = {} THEN ""
        ELSE IF Max(dots) > 1 /\ Max(dots) < Len(n)
             THEN SubSeq(n, Max(dots), Len(n))
             ELSE ""

\* Path.is_file()
is_file(fsys, path) == path \in DOMAIN fsys /\ fsys[path].kind = "file"

\* Path.is_dir()
is_dir(fsys, path) == path \in DOMAIN fsys /\ fsys[path].kind = "dir"

(***************************************************************************)
(* processor.py                                                            *)
(***************************************************************************)
\* SKIP_DIRS without the build-output directories
SKIP_DIRS_no_build ==
    {".git", ".venv", "venv", "env", "__pycache__", "node_modules",
     ".pytest_cache", ".mypy_cache", ".egg-info",
     ".tox", "htmlcov", ".coverage", ".idea", ".vscode"}

SKIP_DIRS ==
    {".git", ".venv", "venv", "env", "__pycache__", "node_modules",
     ".pytest_cache", ".mypy_cache", "dist", "build", ".egg-info",
     ".tox", "htmlcov", ".coverage", ".idea", ".vscode"}

SKIP_FILES ==
    {".gitignore", ".dockerignore", "LICENSE", "CHANGELOG",
     "requirements.txt", "package-lock.json", "yarn.lock", "poetry.lock"}

\* number of leading lines has_signature looks at
ScanLines == 20

\* number of leading lines _remove_old_signature searches for the email
RemoveScanLines == 20

\* number of lines, from the email line on, searched for the end marker
MarkerSpan == 5

\* a has_signature that looks at the first two lines only
has_signature_two_lines(content, email) ==
    \E i \in 1..Min(2, Len(content)) : Contains(email, content[i])

\* FileProcessor.has_signature
has_signature(content, email) ==
    \E i \in 1..Min(ScanLines, Len(content)) : Contains(email, content[i])

\* the end-marker test of _remove_old_signature
IsMarker(line) ==
    Contains("=====", line) \/ Contains("-->", line) \/ Contains("*/", line)

\* signature_end after the for loops of _remove_old_signature: the number
\* of leading lines up to and including the marker line, 0 without one
MarkerEnd(lines, email) ==
    LET hits == {i \in 1..Min(RemoveScanLines, Len(lines)) : Contains(email, lines[i])}
    IN  IF hits = {} THEN 0
        ELSE LET i == CHOOSE h \in hits : \A g \in hits : h <= g
                 marks == {j \in i..Min(i + MarkerSpan - 1, Len(lines)) : IsMarker(lines[j])}
             IN  IF marks = {} THEN 0
                 ELSE CHOOSE m \in marks : \A k \in marks : m <= k

RECURSIVE SkipEmpty(_, _)
\* the while loop of _remove_old_signature
SkipEmpty(lines, signature_end) ==
    IF signature_end < Len(lines) /\ IsBlank(lines[signature_end + 1])
    THEN SkipEmpty(lines, signature_end + 1)
    ELSE signature_end

\* FileProcessor._remove_old_signature
_remove_old_signature(content, email) ==
    LET signature_end == SkipEmpty(content, MarkerEnd(content, email))
    IN  Join(SubSeq(content, signature_end + 1, Len(content)))

\* the str '\n'
NL == <<"", "">>

\* a process_file without the shebang branch: the block goes first
ShebangContent_block_first(content, signature, email, force) ==
    StrConcat(signature,
              IF force /\ has_signature(content, email)
              THEN _remove_old_signature(content, email)
              ELSE content)

\* new_content of process_file for a file that begins with "#!"
ShebangContent(content, signature, email, force) ==
    LET shebang == <<content[1], "">>
        rest0 == IF Len(content) > 1 THEN Tail(content) ELSE <<"">>
        rest == IF force /\ has_signature(rest0, email)
                THEN _remove_old_signature(rest0, email)
                ELSE rest0
    IN  StrConcat(StrConcat(StrConcat(shebang, NL), signature), rest)

\* new_content of process_file for a file without a shebang
PlainContent(content, signature, email, force) ==
    LET body == IF force /\ has_signature(content, email)
                THEN _remove_old_signature(content, email)
                ELSE content
    IN  StrConcat(signature, body)

\* new_content of process_file
NewContent(content, signature, email, force) ==
    IF StartsWith(content[1], "#!")
    THEN ShebangContent(content, signature, email, force)
    ELSE PlainContent(content, signature, email, force)

\* an outcome of process_file: its return value, the text the file holds
\* afterwards, and whether the file was opened for reading and for writing
Outcome(fsys, path, result, text, r, w) ==
    [path |-> path, modified |-> result, after |-> text, opened_r |-> r, opened_w |-> w]

Untouched(fsys, path) ==
    IF is_file(fsys, path) THEN fsys[path].content ELSE <<"">>

\* a write-back that ignores dry_run
WriteBack_always(fsys, path, new_content, dry_run) ==
    IF ~fsys[path].writable
    THEN Outcome(fsys, path, FALSE, fsys[path].content, TRUE, TRUE)
    ELSE Outcome(fsys, path, TRUE, new_content, TRUE, TRUE)

\* a write-back whose PermissionError handler does not return False
WriteBack_no_return(fsys, path, new_content, dry_run) ==
    IF dry_run
    THEN Outcome(fsys, path, TRUE, fsys[path].content, TRUE, FALSE)
    ELSE IF ~fsys[path].writable
    THEN Outcome(fsys, path, TRUE, fsys[path].content, TRUE, TRUE)
    ELSE Outcome(fsys, path, TRUE, new_content, TRUE, TRUE)

\* the end of process_file: write new_content unless dry_run; a refused
\* write leaves the file as it is and returns False
WriteBack(fsys, path, new_content, dry_run) ==
    IF dry_run
    THEN Outcome(fsys, path, TRUE, fsys[path].content, TRUE, FALSE)
    ELSE IF ~fsys[path].writable
    THEN Outcome(fsys, path, FALSE, fsys[path].content, TRUE, TRUE)
    ELSE Outcome(fsys, path, TRUE, new_content, TRUE, TRUE)

\* process_file from its is_file test on
ReadAndSign(fsys, path, cfg, dry_run, force, date) ==
    IF ~is_file(fsys, path)
    THEN Outcome(fsys, path, FALSE, Untouched(fsys, path), FALSE, FALSE)
    ELSE IF ~fsys[path].readable \/ ~fsys[path].utf8
    THEN Outcome(fsys, path, FALSE, fsys[path].content, TRUE, FALSE)
    ELSE LET content == fsys[path].content
             email == cfg["email"]
             signature == generate_signature(cfg, suffix(path), date)
         IN  IF has_signature(content, email) /\ ~force
             THEN Outcome(fsys, path, FALSE, content, TRUE, FALSE)
             ELSE IF signature = ValueError
             THEN Outcome(fsys, path, FALSE, content, TRUE, FALSE)
             ELSE WriteBack(fsys, path, NewContent(content, signature, email, force), dry_run)

\* a process_file that tests the extension only when it renders the block
process_file_late_check(fsys, path, cfg, dry_run, force, date) ==
    ReadAndSign(fsys, path, cfg, dry_run, force, date)

\* FileProcessor.process_file
process_file(fsys, path, cfg, dry_run, force, date) ==
    IF ~is_supported_file(suffix(path))
    THEN Outcome(fsys, path, FALSE, Untouched(fsys, path), FALSE, FALSE)
    ELSE ReadAndSign(fsys, path, cfg, dry_run, force, date)

\* the file system after process_file
Written(fsys, out) ==
    IF is_file(fsys, out.path)
    THEN [fsys EXCEPT ![out.path].content = out.after]
    ELSE fsys

(***************************************************************************)
(* Inputs.                                                                 *)
(***************************************************************************)
Email == "e@x.io"

Required == [author |-> "A", email |-> Email]

Optional == [title |-> "T", website |-> "https://w.io", upwork |-> "https://u.io/?s=1"]

\* every configuration: the required keys and any subset of the optional ones
Configs ==
    {Required @@ [k \in K |-> Optional[k]] : K \in SUBSET DOMAIN Optional}

\* one extension per comment style and two unsupported ones
Exts == {".py", ".js", ".html", ".css", ".bin", ""}

\* file bodies: code with and without a final newline, the empty text, a
\* first line that is blank but not empty, the email in a leading comment,
\* the email followed by a line of "=", the email on line 21 only
Bodies ==
    { <<"x = 1", "">>,
      <<"x = 1">>,
      <<"">>,
      <<"  ", "x = 1", "">>,
      <<"/* contact " \o Email \o " */", "x = 1", "">>,
      <<"mail " \o Email, "x = 1", "=====", "y = 2", "">>,
      [i \in 1..ScanLines |-> "x = 1"] \o <<"mail " \o Email, "">> }

Shebang == "#!/usr/bin/env X"

Blanks(k) == [i \in 1..k |-> ""]

\* a text: an optional shebang line, up to MaxBlank empty lines, a body;
\* and the shebang line alone, without a newline
Contents ==
    { s \o Blanks(k) \o b : s \in {<<>>, <<Shebang>>}, k \in 0..MaxBlank, b \in Bodies }
    \cup {<<Shebang>>}

TopDir == <<"proj">>

IdleArgs == [path |-> <<>>, dry_run |-> FALSE, force |-> FALSE, files_only |-> <<>>]

NoStats == [processed |-> 0, skipped |-> 0, files |-> <<>>]

\* the walk is not running
Idle ==
    /\ pc = "idle"
    /\ args = IdleArgs
    /\ walk = <<>>
    /\ files = <<>>
    /\ stats = NoStats

(***************************************************************************)
(* Single-file specification: a directory with one readable, writable     *)
(* text file, on which FileProcessor.process_file is called directly.     *)
(***************************************************************************)
InitFile ==
    /\ \E ext \in Exts, text \in Contents :
          fs = (TopDir :> Dir) @@ (<<"proj", "f" \o ext>> :> File(text, TRUE, TRUE, TRUE))
    /\ config \in Configs
    /\ clock = 1
    /\ Idle
    /\ calls = <<>>
    /\ runs = <<>>

\* the record of one process_file call
Call(run, fsys, path, dry_run, force, date, out) ==
    [run |-> run, path |-> path, dry_run |-> dry_run, force |-> force, date |-> date,
     before |-> Untouched(fsys, path), after |-> out.after,
     modified |-> out.modified, opened_r |-> out.opened_r, opened_w |-> out.opened_w]

\* FileProcessor(config, dry_run, force).process_file(path)
ProcessFile ==
    /\ pc = "idle"
    /\ Len(calls) < MaxCalls
    /\ \E path \in {p \in DOMAIN fs : fs[p].kind # "dir"}, dry_run \in BOOLEAN, force \in BOOLEAN :
          LET out == process_file(fs, path, config, dry_run, force, strftime(clock))
          IN  /\ fs' = Written(fs, out)
              /\ calls' = Append(calls, Call(0, fs, path, dry_run, force, strftime(clock), out))
    /\ UNCHANGED <<config, clock, pc, args, walk, files, stats, runs>>

NextFile == ProcessFile

SpecFile == InitFile /\ [][NextFile]_vars

(***************************************************************************)
(* Directory specification: process_files on a small tree.                 *)
(***************************************************************************)
Signed == <<"# by " \o Email, "x = 1", "">>

Unsigned == <<"x = 1", "">>

\* the kinds of directory entry the walk meets: a name and an entry
FileKinds ==
    { <<"a.py", File(Unsigned, TRUE, TRUE, TRUE)>>,
      <<"a.py", File(Signed, TRUE, TRUE, TRUE)>>,
      <<"a.py", File(Unsigned, FALSE, TRUE, TRUE)>>,
      <<"a.py", File(Unsigned, TRUE, TRUE, FALSE)>>,
      <<"a.py", File(Unsigned, TRUE, FALSE, TRUE)>>,
      <<"a.py", Other>>,
      <<"LICENSE", File(Unsigned, TRUE, TRUE, TRUE)>>,
      <<"b.bin", File(Signed, TRUE, TRUE, TRUE)>> }

InnerKinds ==
    { <<"c.html", File(Unsigned, TRUE, TRUE, TRUE)>>,
      <<"c.html", File(Unsigned, TRUE, FALSE, TRUE)>>,
      <<"yarn.lock", File(Unsigned, TRUE, TRUE, TRUE)>> }

\* names of the directory under TopDir and of the directory inside it
DirNames == {<<"src", "lib">>, <<"src", "build">>, <<".git", "lib">>}

\* a tree: TopDir/<k1>, TopDir/<d1>/<k2>, TopDir/<d1>/<d2>/m.js
Tree(k1, d1, k2, d2) ==
    (TopDir :> Dir)
    @@ (TopDir \o <<k1[1]>> :> k1[2])
    @@ (TopDir \o <<d1>> :> Dir)
    @@ (TopDir \o <<d1, k2[1]>> :> k2[2])
    @@ (TopDir \o <<d1, d2>> :> Dir)
    @@ (TopDir \o <<d1, d2, "m.js">> :> File(Unsigned, TRUE, TRUE, TRUE))

InitTree ==
    /\ \E k1 \in FileKinds, k2 \in InnerKinds, d \in DirNames :
          fs = Tree(k1, d[1], k2, d[2])
    /\ config = Required
    /\ clock = 1
    /\ Idle
    /\ calls = <<>>
    /\ runs = <<>>

\* the entries directly inside directory d
Children(fsys, d) ==
    {p \in DOMAIN fsys : Len(p) = Len(d) + 1 /\ SubSeq(p, 1, Len(d)) = d}

\* the orders in which a directory listing can come
Orders(S) ==
    {o \in [1..Cardinality(S) -> S] : \A i, j \in 1..Cardinality(S) : o[i] = o[j] => i = j}

\* the stats returned for a single-file root
SingleStats(path, success) ==
    [processed |-> IF success THEN 1 ELSE 0,
     skipped |-> IF success THEN 0 ELSE 1,
     files |-> IF success THEN <<path>> ELSE <<>>]

\* a stats update that lists the path of every file it counts
Count_lists_all(st, path, success) ==
    IF success
    THEN [st EXCEPT !.processed = @ + 1, !.files = Append(@, path)]
    ELSE [st EXCEPT !.skipped = @ + 1, !.files = Append(@, path)]

\* the stats update of process_directory after one process_file
Count(st, path, success) ==
    IF success
    THEN [st EXCEPT !.processed = @ + 1, !.files = Append(@, path)]
    ELSE [st EXCEPT !.skipped = @ + 1]

\* the roots process_files is given: the top directory, a file in it, and
\* a path that does not exist
Roots(fsys) == {TopDir, <<"nowhere">>} \cup {p \in Children(fsys, TopDir) : fsys[p].kind # "dir"}

\* the calls of process_files: files_only is None, as in cli.main; the
\* flags are varied for the roots that exist
Invocations(fsys) ==
    {[path |-> p, dry_run |-> d, force |-> f, files_only |-> <<>>] :
        p \in Roots(fsys) \cap DOMAIN fsys, d \in BOOLEAN, f \in BOOLEAN}
    \cup {[path |-> p, dry_run |-> FALSE, force |-> FALSE, files_only |-> <<>>] :
             p \in Roots(fsys) \ DOMAIN fsys}

\* a finished run
Run(a, before, result, error) ==
    [args |-> a, before |-> before, result |-> result, error |-> error, finished |-> TRUE]

\* process_files: a file root is processed at once, a directory root starts
\* process_directory, another root returns the error result
ProcessFiles ==
    /\ pc = "idle"
    /\ Len(runs) < MaxRuns
    /\ \E a \in Invocations(fs) :
          LET path == a.path
              dry_run == a.dry_run
              force == a.force
              files_only == a.files_only
              n == Len(runs) + 1
          IN  IF is_file(fs, path)
              THEN LET out == process_file(fs, path, config, dry_run, force, strftime(clock))
                   IN  /\ fs' = Written(fs, out)
                       /\ calls' = Append(calls, Call(n, fs, path, dry_run, force, strftime(clock), out))
                       /\ runs' = Append(runs, Run(a, fs, SingleStats(path, out.modified), FALSE))
                       /\ UNCHANGED <<pc, args, walk, files, stats>>
              ELSE IF is_dir(fs, path)
              THEN /\ pc' = "walk"
                   /\ args' = a
                   /\ stats' = NoStats
                   /\ files' = files_only
                   /\ walk' = IF files_only # <<>> THEN <<>> ELSE <<path>>
                   /\ runs' = Append(runs, [Run(a, fs, NoStats, FALSE) EXCEPT !.finished = FALSE])
                   /\ UNCHANGED <<fs, calls>>
              ELSE /\ runs' = Append(runs, Run(a, fs, NoStats, TRUE))
                   /\ UNCHANGED <<fs, calls, pc, args, walk, files, stats>>
    /\ UNCHANGED <<config, clock>>

\* os.walk yields the next directory: its subdirectories outside SKIP_DIRS
\* are walked next, its files outside SKIP_FILES are to be processed
WalkDir ==
    /\ pc = "walk"
    /\ files = <<>>
    /\ walk # <<>>
    /\ LET root == Head(walk)
           dirs == {p \in Children(fs, root) : fs[p].kind = "dir" /\ name(p) \notin SKIP_DIRS}
           filenames == {p \in Children(fs, root) : fs[p].kind # "dir" /\ name(p) \notin SKIP_FILES}
       IN  \E ds \in Orders(dirs), fl \in Orders(filenames) :
              /\ walk' = ds \o Tail(walk)
              /\ files' = fl
    /\ UNCHANGED <<fs, config, clock, pc, args, stats, calls, runs>>

\* one iteration of the loop over files: process_file and the stats update
VisitFile ==
    /\ pc = "walk"
    /\ files # <<>>
    /\ LET file_path == Head(files)
           out == process_file(fs, file_path, config, args.dry_run, args.force, strftime(clock))
       IN  /\ fs' = Written(fs, out)
           /\ stats' = Count(stats, file_path, out.modified)
           /\ calls' = Append(calls, Call(Len(runs), fs, file_path, args.dry_run, args.force,
                                          strftime(clock), out))
    /\ files' = Tail(files)
    /\ UNCHANGED <<config, clock, pc, args, walk, runs>>

\* process_directory returns stats
Return ==
    /\ pc = "walk"
    /\ files = <<>>
    /\ walk = <<>>
    /\ runs' = [runs EXCEPT ![Len(runs)] = Run(args, @.before, stats, FALSE)]
    /\ pc' = "idle"
    /\ args' = IdleArgs
    /\ stats' = NoStats
    /\ UNCHANGED <<fs, config, clock, walk, files, calls>>

NextTree == ProcessFiles \/ WalkDir \/ VisitFile \/ Return

SpecTree == InitTree /\ [][NextTree]_vars

(***************************************************************************)
(* Properties of the single-file specification.                            *)
(***************************************************************************)
\* the signature block a call rendered
SigOf(c) == generate_signature(config, suffix(c.path), c.date)

\* the comment lines of a rendered block (without the final empty piece)
BlockLines(sig) == SubSeq(sig, 1, Len(sig) - 1)

HasShebang(text) == StartsWith(text[1], "#!")

\* the number of lines before the block in a written file
BlockOffset(text) == IF HasShebang(text) THEN 2 ELSE 0

\* the text that follows the block a call wrote
AfterBlock(c) ==
    Join(SubSeq(c.after, BlockOffset(c.before) + Len(SigOf(c)), Len(c.after)))

\* the text of a file after its shebang line, the whole text without one
BodyOf(text) ==
    IF HasShebang(text)
    THEN (IF Len(text) > 1 THEN Tail(text) ELSE <<"">>)
    ELSE text

EmailLines(text) == {i \in 1..Len(text) : Contains(Email, text[i])}

\* a call that wrote a signature
Wrote(c) == c.modified /\ ~c.dry_run

\* calls i and i+1 are: signing an unsigned file, then re-signing with force
RoundTrip(i) ==
    /\ i + 1 <= Len(calls)
    /\ ~calls[i].force /\ Wrote(calls[i])
    /\ ~has_signature(calls[i].before, Email)
    /\ calls[i + 1].force /\ Wrote(calls[i + 1])

\* the lines of call c's file outside the block c wrote
OutsideBlock(c) ==
    {c.after[k] : k \in (1..Len(c.after)) \
        ((BlockOffset(c.before) + 1)..(BlockOffset(c.before) + Len(SigOf(c)) - 1))}

\* C1: after signing an unsigned file (with no email in it) and re-signing
\* it with force, the email occurs on exactly one line and no line of the
\* previous block is left outside the new block
C1_OneBlockAfterForce ==
    \A i \in 1..Len(calls) :
        RoundTrip(i) /\ EmailLines(calls[i].before) = {} =>
            /\ Cardinality(EmailLines(calls[i + 1].after)) = 1
            /\ OutsideBlock(calls[i + 1]) \cap
                  {l \in Range(BlockLines(SigOf(calls[i]))) : l # ""} = {}

\* C2: after signing a file and re-signing it with force, the text after
\* the new block is exactly the original body
C2_BodyPreservedAfterForce ==
    \A i \in 1..Len(calls) :
        RoundTrip(i) => AfterBlock(calls[i + 1]) = BodyOf(calls[i].before)

\* call i wrote a signature without force and call i+1 runs without force
TwiceWithoutForce(i) ==
    /\ i + 1 <= Len(calls)
    /\ ~calls[i].force /\ Wrote(calls[i])
    /\ ~calls[i + 1].force

\* C3: after a run without force that wrote a signature, a second run
\* without force returns modified=false, does not write, and leaves the
\* content of the first run; the email is within the first 20 lines
C3_IdempotentWithoutForce ==
    \A i \in 1..Len(calls) :
        TwiceWithoutForce(i) =>
            /\ ~calls[i + 1].modified
            /\ ~calls[i + 1].opened_w
            /\ calls[i + 1].after = calls[i].after
            /\ i + 1 = Len(calls) => fs[calls[i].path].content = calls[i].after
            /\ \E k \in EmailLines(calls[i].after) : k <= 20

\* a second run without force happened on a signed file with a shebang, and
\* on one whose own email lies beyond line 20
C3_Witness ==
    \E i \in 1..Len(calls) :
        /\ TwiceWithoutForce(i)
        /\ ~calls[i + 1].dry_run
        /\ \/ HasShebang(calls[i].before)
           \/ EmailLines(calls[i].before) # {}

\* C4: a signature inserted into an unsigned file without a shebang gives
\* the block's comment lines, one empty line, then the original content
C4_BlankLineAfterBlock ==
    \A i \in 1..Len(calls) :
        LET c == calls[i]
        IN  Wrote(c) /\ ~has_signature(c.before, Email) /\ ~HasShebang(c.before) =>
                c.after = BlockLines(SigOf(c)) \o <<"">> \o c.before

\* the text the file had before the first call
Original == calls[1].before

\* the remainder process_file puts after the block of a shebang file
Remainder(c) ==
    IF c.force /\ has_signature(BodyOf(c.before), Email)
    THEN _remove_old_signature(BodyOf(c.before), Email)
    ELSE BodyOf(c.before)

\* C5: a file that begins with "#!" keeps its first line through every
\* run, and every run that writes leaves: that line, one empty line, the
\* signature block, the post-shebang remainder
C5_ShebangPreserved ==
    \A i \in 1..Len(calls) :
        LET c == calls[i]
        IN  HasShebang(Original) =>
                /\ fs[c.path].content[1] = Original[1]
                /\ c.after[1] = Original[1]
                /\ Wrote(c) =>
                      /\ c.after[2] = ""
                      /\ SubSeq(c.after, 3, Len(SigOf(c)) + 1) = BlockLines(SigOf(c))
                      /\ AfterBlock(c) = Remainder(c)
                      /\ ~c.force => AfterBlock(c) = BodyOf(c.before)

\* a shebang file was signed and then re-signed with force
C5_Witness ==
    /\ Len(calls) >= 2
    /\ HasShebang(Original)
    /\ Wrote(calls[1]) /\ ~calls[1].force
    /\ Wrote(calls[2]) /\ calls[2].force
    /\ Len(Original) > 1

\* C8: a file with an unsupported extension is not read, not written and
\* not modified, whatever dry_run, force and its content are
C8_UnsupportedUntouched ==
    \A i \in 1..Len(calls) :
        LET c == calls[i]
        IN  name(c.path) \in {"f.bin", "f"} =>
                /\ ~c.modified
                /\ ~c.opened_r
                /\ ~c.opened_w
                /\ c.after = c.before
                /\ fs[c.path].content = Original

\* process_file ran with force and without dry_run on a .bin file whose
\* first lines contain the email
C8_Witness ==
    \E i \in 1..Len(calls) :
        /\ name(calls[i].path) = "f.bin"
        /\ calls[i].force /\ ~calls[i].dry_run
        /\ has_signature(calls[i].before, Email)

(***************************************************************************)
(* Properties of the directory specification.                              *)
(***************************************************************************)
\* the process_file calls of run k, in order
CallsOf(k) == SelectSeq(calls, LAMBDA c : c.run = k)

PathsOf(k) == {c.path : c \in Range(CallsOf(k))}

\* run k walks a directory (files_only not given)
IsWalk(k) == is_dir(runs[k].before, runs[k].args.path) /\ runs[k].args.files_only = <<>>

\* directory and file names of the skip sets that occur in the trees
ExcludedDirs == {".git", "node_modules", "__pycache__", "build", "dist"}

ExcludedFiles == {"LICENSE", "yarn.lock", ".gitignore"}

\* path p lies under root in an excluded subdirectory, or has an excluded name
Excluded(p, root) ==
    \/ \E k \in (Len(root) + 1)..(Len(p) - 1) : p[k] \in ExcludedDirs
    \/ name(p) \in ExcludedFiles

\* the non-directory entries under root
FilesUnder(fsys, root) ==
    {p \in DOMAIN fsys : /\ Len(p) > Len(root)
                         /\ SubSeq(p, 1, Len(root)) = root
                         /\ fsys[p].kind # "dir"}

\* the files a walk of root has to visit
Candidates(fsys, root) == {p \in FilesUnder(fsys, root) : ~Excluded(p, root)}

\* C6: a dry run leaves every file as it was and opens none for writing;
\* a dry run followed by the same run without dry_run, whose writes all
\* succeed, reports the same processed, skipped and files
C6_DryRunSameDecisions ==
    /\ \A i \in 1..Len(calls) :
          calls[i].dry_run => calls[i].after = calls[i].before /\ ~calls[i].opened_w
    /\ \A k \in 1..Len(runs) :
          /\ runs[k].args.dry_run /\ k = Len(runs) => fs = runs[k].before
          /\ (/\ k + 1 <= Len(runs)
              /\ runs[k].finished /\ runs[k + 1].finished
              /\ runs[k].args.dry_run
              /\ runs[k + 1].args = [runs[k].args EXCEPT !.dry_run = FALSE]
              /\ \A c \in Range(CallsOf(k + 1)) : c.opened_w => c.modified)
             => /\ runs[k + 1].result = runs[k].result
                /\ runs[k + 1].error = runs[k].error
                /\ \A i \in 1..Len(CallsOf(k)) :
                      CallsOf(k + 1)[i].modified = CallsOf(k)[i].modified

\* a dry run of a directory that would modify files was followed by the
\* same run without dry_run, which wrote them
C6_Witness ==
    \E k \in 1..Len(runs) :
        /\ k + 1 <= Len(runs)
        /\ runs[k].finished /\ runs[k + 1].finished
        /\ IsWalk(k)
        /\ runs[k].args.dry_run
        /\ runs[k + 1].args = [runs[k].args EXCEPT !.dry_run = FALSE]
        /\ runs[k].result.processed >= 2
        /\ runs[k].result.skipped >= 1
        /\ \A c \in Range(CallsOf(k + 1)) : c.opened_w => c.modified
        /\ fs # runs[k + 1].before

\* C7: in a walk of a directory, no file under an excluded subdirectory and
\* no file with an excluded name is passed to process_file, changed, or
\* listed in files; the counters count the other files only
C7_ExcludedNeverTouched ==
    \A k \in 1..Len(runs) :
        IsWalk(k) =>
            LET root == runs[k].args.path
                excl == {p \in FilesUnder(runs[k].before, root) : Excluded(p, root)}
            IN  /\ PathsOf(k) \cap excl = {}
                /\ k = Len(runs) => \A p \in excl : fs[p] = runs[k].before[p]
                /\ k = Len(runs) /\ ~runs[k].finished =>
                      /\ Range(stats.files) \cap excl = {}
                      /\ Range(files) \cap excl = {}
                      /\ stats.processed + stats.skipped
                            <= Cardinality(FilesUnder(runs[k].before, root) \ excl)
                /\ runs[k].finished =>
                      /\ Range(runs[k].result.files) \cap excl = {}
                      /\ runs[k].result.processed + runs[k].result.skipped
                            = Cardinality(FilesUnder(runs[k].before, root) \ excl)

\* a walk with force and without dry_run finished on a tree with a file in
\* an excluded directory, a nested excluded directory or an excluded name
C7_Witness ==
    \E k \in 1..Len(runs) :
        /\ IsWalk(k) /\ runs[k].finished
        /\ runs[k].args.force /\ ~runs[k].args.dry_run
        /\ runs[k].result.processed >= 1
        /\ \E p, q \in FilesUnder(runs[k].before, runs[k].args.path) :
              /\ \E j \in 2..(Len(p) - 1) : p[j] \in ExcludedDirs
              /\ name(q) \in ExcludedFiles

\* the paths of the calls of run k that returned modified=true, in order
ModifiedPaths(k) ==
    LET cs == SelectSeq(CallsOf(k), LAMBDA c : c.modified)
    IN  [i \in 1..Len(cs) |-> cs[i].path]

\* C9: a finished run on a directory has processed + skipped equal to the
\* number of non-excluded files of the walk, processed equal to the length
\* of files, and files equal to the paths for which process_file returned
\* modified=true, each once; on a single-file root processed + skipped = 1
C9_StatsAccounting ==
    \A k \in 1..Len(runs) :
        LET r == runs[k]
            st == r.result
        IN  r.finished /\ ~r.error =>
                /\ st.processed = Len(st.files)
                /\ st.files = ModifiedPaths(k)
                /\ \A i, j \in 1..Len(st.files) : st.files[i] = st.files[j] => i = j
                /\ st.skipped = Cardinality({i \in 1..Len(CallsOf(k)) : ~CallsOf(k)[i].modified})
                /\ IsWalk(k) =>
                      st.processed + st.skipped = Cardinality(Candidates(r.before, r.args.path))
                /\ is_file(r.before, r.args.path) => st.processed + st.skipped = 1

\* a walk finished with files both processed and skipped, and a run on a
\* single-file root finished
C9_Witness ==
    /\ \E k \in 1..Len(runs) :
          /\ IsWalk(k) /\ runs[k].finished
          /\ runs[k].result.processed >= 2
          /\ runs[k].result.skipped >= 1
    /\ \E k \in 1..Len(runs) :
          /\ is_file(runs[k].before, runs[k].args.path)
          /\ runs[k].finished

\* process_file could not read the file of call c, or was refused the write
Failed(c, fsys) ==
    /\ fsys[c.path].kind = "file"
    /\ \/ c.opened_r /\ (~fsys[c.path].readable \/ ~fsys[c.path].utf8)
       \/ c.opened_w /\ ~fsys[c.path].writable

\* C10: in a directory run, a file that cannot be read or decoded, or whose
\* write is refused, gets modified=false, stays as it was, is counted in
\* skipped and not in processed or files; every candidate of the walk is
\* still processed and the run ends with stats, not with an error
C10_FailuresAbsorbed ==
    \A k \in 1..Len(runs) :
        LET r == runs[k]
            failed == {c \in Range(CallsOf(k)) : Failed(c, r.before)}
        IN  is_dir(r.before, r.args.path) =>
                /\ \A c \in failed : ~c.modified /\ c.after = c.before
                /\ r.finished =>
                      /\ ~r.error
                      /\ \A c \in failed : c.path \notin Range(r.result.files)
                      /\ r.result.skipped >= Cardinality({c.path : c \in failed})
                      /\ r.result.processed + Cardinality({c.path : c \in failed})
                            <= Len(CallsOf(k))
                      /\ IsWalk(k) => PathsOf(k) = Candidates(r.before, r.args.path)
                /\ ~r.finished => pc = "walk" /\ (files # <<>> \/ walk # <<>> \/ ENABLED Return)

\* a walk without dry_run finished in which one file could not be read, the
\* write of another was refused, and a third was processed
C10_Witness ==
    \E k \in 1..Len(runs) :
        /\ IsWalk(k) /\ runs[k].finished /\ ~runs[k].args.dry_run
        /\ \E c, d \in Range(CallsOf(k)) :
              /\ c.opened_r /\ ~c.opened_w /\ Failed(c, runs[k].before)
              /\ d.opened_w /\ Failed(d, runs[k].before)
        /\ runs[k].result.processed >= 1
        /\ runs[k].result.skipped >= 2

(***************************************************************************)
(* Forced re-signing of a file whose email is not in a block of the tool.  *)
(***************************************************************************)
\* the lines of a text that are not blank, in order
NonBlank(text) == SelectSeq(text, LAMBDA l : ~IsBlank(l))

RECURSIVE IsSubsequence(_, _)
\* the lines of `a` occur in `b` in the same order
IsSubsequence(a, b) ==
    IF a = <<>> THEN TRUE
    ELSE IF b = <<>> THEN FALSE
    ELSE IF Head(a) = Head(b) THEN IsSubsequence(Tail(a), Tail(b))
    ELSE IsSubsequence(a, Tail(b))

\* the first call ran with force and wrote, on a file never signed by the
\* tool whose first 20 lines contain the email
ForcedOnForeignEmail ==
    /\ Len(calls) >= 1
    /\ calls[1].force /\ Wrote(calls[1])
    /\ has_signature(Original, Email)

\* C11: process_file with force, on a file whose first 20 lines contain the
\* email outside any block the tool inserted, keeps every original
\* non-blank line, in order, after the newly inserted block
C11_ForceKeepsOriginalLines ==
    ForcedOnForeignEmail =>
        IsSubsequence(NonBlank(BodyOf(Original)), AfterBlock(calls[1]))

====
